---- MODULE Spec2Model ----
(***************************************************************************)
(* Model of the ghost logging middleware (handlers/log.go): the response   *)
(* writer chain, the statusResponseWriter link, the token resolver, the    *)
(* log formatter and the LogHandler wrapper.                               *)
(*                                                                         *)
(* Go strings are sequences of one-character strings, so that the header   *)
(* token pattern and the header key canonicalisation are computed.         *)
(* Writers are the elements of the sequence ws: ws[1] is the server's own  *)
(* writer, ws[i] wraps ws[i-1], and a writer is named by its index.        *)
(***************************************************************************)
EXTENDS Integers, Sequences, FiniteSets, TLC

VARIABLES
    handlers,     \* the handler stack of the request, outermost first
    optsBase,     \* the *LogOptions the LogHandler instances were built with
    ws,           \* the writers created so far, innermost (server) first
    pc,           \* position of the request's goroutine
    depth,        \* handler being entered or unwound
    frames,       \* one activation record per entered handler
    panicking,    \* a panic is propagating upward
    now,          \* the clock read by time.Now()
    logLines,     \* calls made on the log sink, in order
    customCalls,  \* calls made on custom token functions, in order
    search,       \* outcome of the last chain search
    compilers,    \* App.compilers: extension key -> template compiler
    templates,    \* App.templates: path key -> compiled template
    mc,           \* App.mc, the lock of the compilers map
    mt,           \* App.mt, the lock of the templates map
    gor,          \* the goroutines calling into the App, and where they are
    amber,        \* the fields of each registered AmberCompiler
    nCalls        \* number of calls made on the App so far

logVars == <<handlers, optsBase, ws, pc, depth, frames, panicking, now,
             logLines, customCalls, search>>

appVars == <<compilers, templates, mc, mt, gor, amber, nCalls>>

vars == <<handlers, optsBase, ws, pc, depth, frames, panicking, now,
          logLines, customCalls, search,
          compilers, templates, mc, mt, gor, amber, nCalls>>

----------------------------------------------------------------------------
(* Bounds of the model *)

MaxLayers == 3
MaxOps == 2
MaxToks == 2
MaxDepth == 4
MaxProcs == 2
MaxCalls == 3

----------------------------------------------------------------------------
(* Strings *)

Ldefault == <<"_","d","e","f","a","u","l","t","_">>
Lshort == <<"_","s","h","o","r","t","_">>
Ltiny == <<"_","t","i","n","y","_">>

T_http_version == <<"h","t","t","p","-","v","e","r","s","i","o","n">>
T_response_time == <<"r","e","s","p","o","n","s","e","-","t","i","m","e">>
T_remote_addr == <<"r","e","m","o","t","e","-","a","d","d","r">>
T_date == <<"d","a","t","e">>
T_method == <<"m","e","t","h","o","d">>
T_url == <<"u","r","l">>
T_referrer == <<"r","e","f","e","r","r","e","r">>
T_referer == <<"r","e","f","e","r","e","r">>
T_user_agent == <<"u","s","e","r","-","a","g","e","n","t">>
T_status == <<"s","t","a","t","u","s">>
T_res_content_length == <<"r","e","s","[","C","o","n","t","e","n","t","-","L","e","n","g","t","h","]">>

FmtDefault == <<"%","s"," ","-"," ","-"," ","[","%","s","]"," ","\"","%","s"," ","%","s"," ","H","T","T","P","/","%","s","\""," ","%","d"," ","%","s"," ","\"","%","s","\""," ","\"","%","s","\"">>
FmtShort == <<"%","s"," ","-"," ","%","s"," ","%","s"," ","H","T","T","P","/","%","s"," ","%","d"," ","%","s"," ","-"," ","%",".","3","f"," ","s">>
FmtTiny == <<"%","s"," ","%","s"," ","%","d"," ","%","s"," ","-"," ","%",".","3","f"," ","s">>

H_Referer == <<"R","e","f","e","r","e","r">>
H_User_Agent == <<"U","s","e","r","-","A","g","e","n","t">>
H_Content_Length == <<"C","o","n","t","e","n","t","-","L","e","n","g","t","h">>
H_X_Id == <<"X","-","I","d">>
RFC3339 == <<"2","0","0","6","-","0","1","-","0","2","T","1","5",":","0","4",":","0","5","Z","0","7",":","0","0">>

(* Token names and format strings a caller may configure *)
T_req_x_id == <<"r","e","q","[","x","-","i","d","]">>
T_res_empty == <<"r","e","s","[","]">>
T_req_trail == <<"r","e","q","[","a","]","]">>
T_custom == <<"m","y","t","o","k">>
T_nilfn == <<"n","i","l","f","n">>
T_unknown == <<"n","o","p","e">>
Lmedium == <<"_","m","e","d","i","u","m","_">>
FmtLiteral == <<"%","s","|","%","d">>

Lowers == <<"a","b","c","d","e","f","g","h","i","j","k","l","m",
            "n","o","p","q","r","s","t","u","v","w","x","y","z">>
Uppers == <<"A","B","C","D","E","F","G","H","I","J","K","L","M",
            "N","O","P","Q","R","S","T","U","V","W","X","Y","Z">>
Digits == <<"0","1","2","3","4","5","6","7","8","9">>

ToUpper(c) ==
    IF \E i \in 1..26 : Lowers[i] = c
    THEN Uppers[CHOOSE i \in 1..26 : Lowers[i] = c] ELSE c

ToLower(c) ==
    IF \E i \in 1..26 : Uppers[i] = c
    THEN Lowers[CHOOSE i \in 1..26 : Uppers[i] = c] ELSE c

(* strconv-style decimal rendering of a natural number, as %d prints it *)
RECURSIVE Itoa(_)
Itoa(n) == IF n < 10 THEN <<Digits[n + 1]>>
           ELSE Itoa(n \div 10) \o <<Digits[(n % 10) + 1]>>

(* textproto.CanonicalMIMEHeaderKey, which http.Header.Get applies to the   *)
(* key: first letter and every letter after a '-' upper case, others lower. *)
CanonicalKey(k) ==
    [i \in 1..Len(k) |->
        IF i = 1 \/ k[i - 1] = "-" THEN ToUpper(k[i]) ELSE ToLower(k[i])]

(* http.Header.Get: the value stored under the canonical key, or "" *)
HeaderGet(h, k) ==
    IF CanonicalKey(k) \in DOMAIN h THEN h[CanonicalKey(k)] ELSE <<>>

----------------------------------------------------------------------------
(* Values handed to the sink: a Go interface{} holding a string, an int    *)
(* (the status code) or a float64 (seconds, kept here in clock ticks).     *)

StrVal(s) == [k |-> "string", s |-> s, n |-> 0]
(* The status code handed over as its decimal text instead of an int. *)
IntValAsString(n) == StrVal(Itoa(n))

IntVal(n) == [k |-> "int", s |-> <<>>, n |-> n]
FloatVal(n) == [k |-> "float64", s |-> <<>>, n |-> n]

StatusOK == 200

(* The request being served; Referer() and UserAgent() read its headers. *)
Request ==
    [Method |-> <<"G","E","T">>, URL |-> <<"/","x">>,
     ProtoMajor |-> 1, ProtoMinor |-> 1,
     RemoteAddr |-> <<"1","2","7",".","0",".","0",".","1">>,
     Header |-> (H_User_Agent :> <<"c","u","r","l">>) @@ (H_X_Id :> <<"7">>)]

(* time.Time.Format: the layout's rendering of the instant. Only the      *)
(* dependence on the instant and on the layout is kept.                   *)
FormatTime(t, layout) == layout \o <<"@">> \o Itoa(t)

(* Lookup table for predefined formats *)
predefFormats ==
    (Ldefault :> [fmt |-> FmtDefault,
                  toks |-> <<T_remote_addr, T_date, T_method, T_url,
                             T_http_version, T_status, T_res_content_length,
                             T_referrer, T_user_agent>>])
    @@ (Lshort :> [fmt |-> FmtShort,
                   toks |-> <<T_remote_addr, T_method, T_url, T_http_version,
                              T_status, T_res_content_length,
                              T_response_time>>])
    @@ (Ltiny :> [fmt |-> FmtTiny,
                  toks |-> <<T_method, T_url, T_status,
                             T_res_content_length, T_response_time>>])

(* rxHeaders.FindStringSubmatch for ^(req|res)\[([^\]]+)\]$ : the whole    *)
(* match and the two groups, or the empty sequence when t does not match.  *)
rxHeaders(t) ==
    IF /\ Len(t) >= 6
       /\ SubSeq(t, 1, 3) \in {<<"r","e","q">>, <<"r","e","s">>}
       /\ t[4] = "["
       /\ t[Len(t)] = "]"
       /\ \A i \in 5..(Len(t) - 1) : t[i] # "]"
    THEN <<t, SubSeq(t, 1, 3), SubSeq(t, 5, Len(t) - 1)>>
    ELSE <<>>

(* The Header() map of writer w: statusResponseWriter embeds its inner    *)
(* ResponseWriter, so Header() is the innermost writer's map.             *)
WriterHeader(wr, w) == wr[1].header

NoValue == [val |-> StrVal(<<>>), ok |-> FALSE]

(* Check if the specified token is a predefined one, and if so return its *)
(* current value.                                                         *)
getPredefinedTokenValue(t, wr, w, r, st, tnow, opts) ==
    IF t = T_http_version
      THEN [val |-> StrVal(Itoa(r.ProtoMajor) \o <<".">> \o Itoa(r.ProtoMinor)),
            ok |-> TRUE]
    ELSE IF t = T_response_time
      THEN [val |-> FloatVal(tnow - st), ok |-> TRUE]
    ELSE IF t = T_remote_addr
      THEN [val |-> StrVal(r.RemoteAddr), ok |-> TRUE]
    ELSE IF t = T_date
      THEN [val |-> StrVal(FormatTime(tnow, opts.DateFormat)), ok |-> TRUE]
    ELSE IF t = T_method
      THEN [val |-> StrVal(r.Method), ok |-> TRUE]
    ELSE IF t = T_url
      THEN [val |-> StrVal(r.URL), ok |-> TRUE]
    ELSE IF t \in {T_referrer, T_referer}
      THEN [val |-> StrVal(HeaderGet(r.Header, H_Referer)), ok |-> TRUE]
    ELSE IF t = T_user_agent
      THEN [val |-> StrVal(HeaderGet(r.Header, H_User_Agent)), ok |-> TRUE]
    ELSE IF t = T_status
      THEN [val |-> IntVal(wr[w].code), ok |-> TRUE]
    ELSE LET mtch == rxHeaders(t) IN
      IF Len(mtch) > 2
      THEN IF mtch[2] = <<"r","e","q">>
           THEN [val |-> StrVal(HeaderGet(r.Header, mtch[3])), ok |-> TRUE]
           ELSE [val |-> StrVal(HeaderGet(WriterHeader(wr, w), mtch[3])),
                 ok |-> TRUE]
      ELSE NoValue

(* The custom token functions a caller registers. Each receives the       *)
(* writer and the request; fnStatus reads the writer it is given.         *)
CustomFns == {"fnA", "fnStatus"}

CallCustom(f, wr, w, r) ==
    IF f = "fnA" THEN <<"A">> ELSE r.Method \o <<":">> \o Itoa(wr[w].code)

(* The sink: Printf of the log package, which renders with fmt.Sprintf.   *)
(* The verbs are %s, %d, %f with an optional one-digit precision, %v and  *)
(* %%; a verb that does not fit its operand, a verb without operand and   *)
(* operands left over are rendered as fmt renders them. One clock tick is *)
(* a millisecond, so a float64 of n ticks is n/1000 seconds. The prefix   *)
(* and the newline a Logger adds are left out.                            *)
TypeName(v) ==
    IF v.k = "string" THEN <<"s","t","r","i","n","g">>
    ELSE IF v.k = "int" THEN <<"i","n","t">>
    ELSE <<"f","l","o","a","t","6","4">>

FormatFloat(n, prec) ==
    LET millis == <<Digits[((n % 1000) \div 100) + 1],
                    Digits[((n % 100) \div 10) + 1],
                    Digits[(n % 10) + 1]>>
    IN IF prec = 0 THEN Itoa(n \div 1000)
       ELSE Itoa(n \div 1000) \o <<".">> \o
            [i \in 1..prec |-> IF i <= 3 THEN millis[i] ELSE "0"]

ValueText(v) ==
    IF v.k = "string" THEN v.s
    ELSE IF v.k = "int" THEN Itoa(v.n)
    ELSE FormatFloat(v.n, 3)

BadVerb(c, v) ==
    <<"%", "!", c, "(">> \o TypeName(v) \o <<"=">> \o ValueText(v) \o <<")">>

FormatArg(c, prec, v) ==
    IF c = "v" THEN ValueText(v)
    ELSE IF c = "s" /\ v.k = "string" THEN v.s
    ELSE IF c = "d" /\ v.k = "int" THEN Itoa(v.n)
    ELSE IF c = "f" /\ v.k = "float64" THEN FormatFloat(v.n, prec)
    ELSE BadVerb(c, v)

RECURSIVE ExtraArgs(_, _)
ExtraArgs(args, j) ==
    IF j > Len(args) THEN <<")">>
    ELSE TypeName(args[j]) \o <<"=">> \o ValueText(args[j]) \o
         (IF j < Len(args) THEN <<",", " ">> ELSE <<>>) \o
         ExtraArgs(args, j + 1)

DigitOf(c) == CHOOSE d \in 0..9 : Digits[d + 1] = c

RECURSIVE SprintfFrom(_, _, _, _)
SprintfFrom(f, i, args, j) ==
    IF i > Len(f)
    THEN IF j <= Len(args)
         THEN <<"%","!","(","E","X","T","R","A"," ">> \o ExtraArgs(args, j)
         ELSE <<>>
    ELSE IF f[i] # "%" THEN <<f[i]>> \o SprintfFrom(f, i + 1, args, j)
    ELSE IF i < Len(f) /\ f[i + 1] = "%"
    THEN <<"%">> \o SprintfFrom(f, i + 2, args, j)
    ELSE LET hasPrec == /\ i + 2 <= Len(f)
                        /\ f[i + 1] = "."
                        /\ \E d \in 1..10 : Digits[d] = f[i + 2]
             prec == IF hasPrec THEN DigitOf(f[i + 2]) ELSE 6
             vi == IF hasPrec THEN i + 3 ELSE i + 1
         IN IF vi > Len(f)
            THEN <<"%","!","(","N","O","V","E","R","B",")">>
            ELSE IF j > Len(args)
            THEN <<"%", "!", f[vi], "(","M","I","S","S","I","N","G",")">>
                 \o SprintfFrom(f, vi + 1, args, j)
            ELSE FormatArg(f[vi], prec, args[j])
                 \o SprintfFrom(f, vi + 1, args, j + 1)

Sprintf(format, args) == SprintfFrom(format, 1, args, 1)

(* Create a new LogOptions struct. The DateFormat defaults to RFC3339. *)
NewLogOptions(l, ft, tok) ==
    [Logger |-> l, Format |-> ft, Tokens |-> tok,
     CustomTokens |-> [x \in {} |-> "nil"],
     Immediate |-> FALSE, DateFormat |-> RFC3339]

(* tokenArg leaving the argument empty for an unresolved token. *)
tokenArgNoPlaceholder(t, wr, w, r, st, tnow, opts) ==
    LET p == getPredefinedTokenValue(t, wr, w, r, st, tnow, opts) IN
    IF p.ok THEN p.val
    ELSE IF t \in DOMAIN opts.CustomTokens /\ opts.CustomTokens[t] # "nil"
         THEN StrVal(CallCustom(opts.CustomTokens[t], wr, w, r))
         ELSE StrVal(<<>>)

(* Value of the i-th argument built by logRequest's loop for token t. *)
tokenArg(t, wr, w, r, st, tnow, opts) ==
    LET p == getPredefinedTokenValue(t, wr, w, r, st, tnow, opts) IN
    IF p.ok THEN p.val
    ELSE IF t \in DOMAIN opts.CustomTokens /\ opts.CustomTokens[t] # "nil"
         THEN StrVal(CallCustom(opts.CustomTokens[t], wr, w, r))
         ELSE StrVal(<<"?">>)

(* The custom mapping consulted before the predefined tokens. *)
tokenCallsCustomFirst(t, wr, w, r, st, tnow, opts) ==
    /\ t \in DOMAIN opts.CustomTokens
    /\ opts.CustomTokens[t] # "nil"

(* Whether logRequest's loop calls a custom token function for token t. *)
tokenCallsCustom(t, wr, w, r, st, tnow, opts) ==
    /\ ~getPredefinedTokenValue(t, wr, w, r, st, tnow, opts).ok
    /\ t \in DOMAIN opts.CustomTokens
    /\ opts.CustomTokens[t] # "nil"

(* logRequest taking the format of a predefined identifier but keeping   *)
(* the caller's token order.                                             *)
logRequestCallerTokens(wr, w, r, st, tnow, opts) ==
    LET fn == IF opts.Logger = "nil" THEN "log.Printf" ELSE opts.Logger
        format == IF opts.Format \in DOMAIN predefFormats
                  THEN predefFormats[opts.Format].fmt ELSE opts.Format
        toks == opts.Tokens
        args == [i \in 1..Len(toks) |->
                    tokenArg(toks[i], wr, w, r, st, tnow, opts)]
        calls[i \in 0..Len(toks)] ==
            IF i = 0 THEN <<>>
            ELSE IF tokenCallsCustom(toks[i], wr, w, r, st, tnow, opts)
                 THEN Append(calls[i - 1],
                             [f |-> opts.CustomTokens[toks[i]], tok |-> toks[i],
                              pos |-> i, w |-> w, r |-> r])
                 ELSE calls[i - 1]
    IN [sink |-> [fn |-> fn, format |-> format, args |-> args, toks |-> toks],
        calls |-> calls[Len(toks)]]

(* Do the actual logging: the one call made on the sink (fn, format and   *)
(* args) and the custom token functions called on the way, in order.      *)
logRequest(wr, w, r, st, tnow, opts) ==
    LET fn == IF opts.Logger = "nil" THEN "log.Printf" ELSE opts.Logger
        sel == IF opts.Format \in DOMAIN predefFormats
               THEN predefFormats[opts.Format]
               ELSE [fmt |-> opts.Format, toks |-> opts.Tokens]
        toks == sel.toks
        args == [i \in 1..Len(toks) |->
                    tokenArg(toks[i], wr, w, r, st, tnow, opts)]
        calls[i \in 0..Len(toks)] ==
            IF i = 0 THEN <<>>
            ELSE IF tokenCallsCustom(toks[i], wr, w, r, st, tnow, opts)
                 THEN Append(calls[i - 1],
                             [f |-> opts.CustomTokens[toks[i]], tok |-> toks[i],
                              pos |-> i, w |-> w, r |-> r])
                 ELSE calls[i - 1]
    IN [sink |-> [fn |-> fn, format |-> sel.fmt, args |-> args, toks |-> toks],
        calls |-> calls[Len(toks)]]

----------------------------------------------------------------------------
(* Writers *)

NoHeader == [x \in {} |-> <<>>]

(* The server's own http.ResponseWriter. It follows net/http: the status  *)
(* sent is fixed by the first WriteHeader, or is 200 when a Write comes   *)
(* first; a later WriteHeader does not change what was sent.              *)
serverWriter(h) ==
    [kind |-> "server", code |-> 0, sent |-> 0, header |-> h, calls |-> <<>>]

(* &statusResponseWriter{w, 0}: the new writer wraps the current head. *)
statusResponseWriter(c) ==
    [kind |-> "status", code |-> c, sent |-> 0, header |-> NoHeader,
     calls |-> <<>>]

(* A wrapper installed by some other middleware; kind "wrap" implements    *)
(* WrapWriter, kind "opaque" does not. Both forward every call.            *)
otherWriter(k) ==
    [kind |-> k, code |-> 0, sent |-> 0, header |-> NoHeader, calls |-> <<>>]

Call(op, c, d, ret) == [op |-> op, code |-> c, data |-> d, ret |-> ret]

RECURSIVE WriterWriteHeader(_, _, _)
RECURSIVE WriterWrite(_, _, _, _)

(* statusWriteHeader forwarding the call without saving the code. *)
statusWriteHeaderNoSave(wr, w, c) ==
    WriterWriteHeader(
        [wr EXCEPT ![w].calls = Append(@, Call("WriteHeader", c, "", "-"))],
        w - 1, c)

(* Intercept the WriteHeader call to save the status code. *)
statusWriteHeader(wr, w, c) ==
    WriterWriteHeader(
        [wr EXCEPT ![w].code = c,
                   ![w].calls = Append(@, Call("WriteHeader", c, "", "-"))],
        w - 1, c)

(* statusWrite storing the default code on every Write. *)
statusWriteAlwaysOK(wr, w, d, ret) ==
    LET saved == [wr EXCEPT ![w].code = StatusOK]
        inner == WriterWrite(saved, w - 1, d, ret)
    IN [wr |-> [inner.wr EXCEPT
                   ![w].calls = Append(@, Call("Write", 0, d, inner.ret))],
        ret |-> inner.ret]

(* statusWrite without the default: the code stays unset on Write. *)
statusWriteNoDefault(wr, w, d, ret) ==
    LET inner == WriterWrite(wr, w - 1, d, ret)
    IN [wr |-> [inner.wr EXCEPT
                   ![w].calls = Append(@, Call("Write", 0, d, inner.ret))],
        ret |-> inner.ret]

(* statusWrite reporting success whatever the wrapped writer returned. *)
statusWriteHidesResult(wr, w, d, ret) ==
    LET saved == IF wr[w].code = 0 THEN [wr EXCEPT ![w].code = StatusOK] ELSE wr
        inner == WriterWrite(saved, w - 1, d, ret)
    IN [wr |-> [inner.wr EXCEPT
                   ![w].calls = Append(@, Call("Write", 0, d, "ok"))],
        ret |-> "ok"]

(* Intercept the Write call to save the default status code. The result   *)
(* is the writers after the call and the value returned to the caller.    *)
statusWrite(wr, w, d, ret) ==
    LET saved == IF wr[w].code = 0 THEN [wr EXCEPT ![w].code = StatusOK] ELSE wr
        inner == WriterWrite(saved, w - 1, d, ret)
    IN [wr |-> [inner.wr EXCEPT
                   ![w].calls = Append(@, Call("Write", 0, d, inner.ret))],
        ret |-> inner.ret]

(* w.WriteHeader(c) on writer w of any kind *)
WriterWriteHeader(wr, w, c) ==
    IF wr[w].kind = "status" THEN statusWriteHeader(wr, w, c)
    ELSE IF wr[w].kind = "server"
    THEN [wr EXCEPT ![w].sent = IF @ = 0 THEN c ELSE @,
                    ![w].calls = Append(@, Call("WriteHeader", c, "", "-"))]
    ELSE WriterWriteHeader(
             [wr EXCEPT ![w].calls = Append(@, Call("WriteHeader", c, "", "-"))],
             w - 1, c)

(* w.Write(d) on writer w of any kind; ret is what the server's writer    *)
(* returns for this call.                                                  *)
WriterWrite(wr, w, d, ret) ==
    IF wr[w].kind = "status" THEN statusWrite(wr, w, d, ret)
    ELSE IF wr[w].kind = "server"
    THEN [wr |-> [wr EXCEPT ![w].sent = IF @ = 0 THEN StatusOK ELSE @,
                            ![w].calls = Append(@, Call("Write", 0, d, ret))],
          ret |-> ret]
    ELSE LET inner == WriterWrite(wr, w - 1, d, ret)
         IN [wr |-> [inner.wr EXCEPT
                        ![w].calls = Append(@, Call("Write", 0, d, inner.ret))],
             ret |-> inner.ret]

(* WrappedWriter returning nil instead of the embedded writer. *)
WrappedWriterNil(wr, w) == 0

(* Implement the WrapWriter interface: the writer this one wraps. *)
WrappedWriter(wr, w) == w - 1

(* The type assertion w.(WrapWriter): does w reveal the writer it wraps? *)
IsWrapWriter(wr, w) == wr[w].kind \in {"status", "wrap"}

(* A predicate over writers is the set of writer kinds it accepts. *)
Holds(pred, wr, w) == wr[w].kind \in pred

(* Chain search: test w, and when the test fails and w reveals an inner   *)
(* writer, go on with that one. n counts the tests made before this one.  *)
RECURSIVE GetResponseWriter(_, _, _, _)
GetResponseWriter(wr, w, pred, n) ==
    IF w < 1 THEN [w |-> 0, ok |-> FALSE, tests |-> n]
    ELSE IF Holds(pred, wr, w) THEN [w |-> w, ok |-> TRUE, tests |-> n + 1]
    ELSE IF ~IsWrapWriter(wr, w) THEN [w |-> 0, ok |-> FALSE, tests |-> n + 1]
    ELSE GetResponseWriter(wr, WrappedWriter(wr, w), pred, n + 1)

(* The predicate of getStatusWriter: is tst a statusResponseWriter? *)
isStatusWriter == {"status"}

(* getStatusWriter testing only the writer it is given. *)
getStatusWriterHeadOnly(wr, w) ==
    IF Holds(isStatusWriter, wr, w)
    THEN [w |-> w, ok |-> TRUE, tests |-> 1]
    ELSE [w |-> 0, ok |-> FALSE, tests |-> 1]

(* Helper function to retrieve the status writer. *)
getStatusWriter(wr, w) ==
    LET st == GetResponseWriter(wr, w, isStatusWriter, 0)
    IN IF st.ok THEN st ELSE [w |-> 0, ok |-> FALSE, tests |-> st.tests]

----------------------------------------------------------------------------
(* LogHandler *)

(* LogHandler without the self-awareness test. *)
alreadySetUpNever(wr, w) == FALSE

(* Self-awareness test of LogHandler: a status writer is already in the   *)
(* chain of the writer it received.                                       *)
alreadySetUp(wr, w) == getStatusWriter(wr, w).ok

(* LogHandler deferring the call whatever the Immediate flag. *)
registersDeferAlways(opts) == TRUE

(* "Log immediately if requested, otherwise on exit": whether the call to *)
(* logRequest is registered with defer.                                   *)
registersDefer(opts) == ~opts.Immediate

(* A plain call placed after h.ServeHTTP instead of a deferred one: it is *)
(* skipped when a panic unwinds through the function.                    *)
runsAfterReturnOnly(fr, p) == fr.deferred /\ ~p

(* A deferred call runs when the function returns and when a panic        *)
(* unwinds through it (p).                                                *)
runsDeferred(fr, p) == fr.deferred

(* The options of the LogHandler at position i of the stack *)
OptsOf(i) == [optsBase EXCEPT !.Immediate = handlers[i].immediate]

NoSearch == [w |-> 0, ok |-> FALSE, tests |-> 0, from |-> 0, pred |-> {}]

(* One call of logRequest by the handler at position by, for status       *)
(* writer stw and start time st: the sink is called once.                 *)
Emit(wr, stw, st, opts, by) ==
    LET lr == logRequest(wr, stw, Request, st, now, opts)
    IN /\ logLines' = Append(logLines,
              [fn |-> lr.sink.fn, format |-> lr.sink.format,
               args |-> lr.sink.args, toks |-> lr.sink.toks,
               by |-> by, w |-> stw, phase |-> pc, code |-> wr[stw].code,
               text |-> Sprintf(lr.sink.format, lr.sink.args)])
       /\ customCalls' = customCalls \o lr.calls

(* h.ServeHTTP(w, r): control passes to the next handler of the stack, or *)
(* to the application's handler below the last one.                       *)
ServeDownstream ==
    IF depth = Len(handlers)
    THEN pc' = "app" /\ depth' = depth
    ELSE pc' = "enter" /\ depth' = depth + 1

(* The current handler returns (or the panic leaves it). *)
ReturnUpward ==
    /\ depth' = depth - 1
    /\ pc' = IF depth > 1 THEN "unwind"
             ELSE IF panicking THEN "panicked" ELSE "done"

(* LogHandler's function, from its entry to the call of h.ServeHTTP. *)
LogHandlerEnter ==
    /\ pc = "enter"
    /\ handlers[depth].kind = "log"
    /\ LET w == Len(ws)
           opts == OptsOf(depth)
       IN /\ search' = getStatusWriter(ws, w) @@
                       [from |-> w, pred |-> isStatusWriter]
          /\ IF alreadySetUp(ws, w)
             THEN /\ frames' = Append(frames,
                        [w |-> w, stw |-> 0, st |-> -1, deferred |-> FALSE,
                         passed |-> w, found |-> getStatusWriter(ws, w).w])
                  /\ UNCHANGED <<ws, logLines, customCalls>>
             ELSE LET wr2 == Append(ws, statusResponseWriter(0))
                      stw == Len(wr2)
                  IN /\ ws' = wr2
                     /\ frames' = Append(frames,
                           [w |-> w, stw |-> stw, st |-> now,
                            deferred |-> registersDefer(opts), passed |-> stw,
                            found |-> 0])
                     /\ IF opts.Immediate
                        THEN Emit(wr2, stw, now, opts, depth)
                        ELSE UNCHANGED <<logLines, customCalls>>
    /\ ServeDownstream
    /\ UNCHANGED <<handlers, optsBase, panicking, now>>
    /\ UNCHANGED appVars

(* LogHandler's function after h.ServeHTTP has returned or panicked: the  *)
(* deferred logRequest, if one was registered.                            *)
LogHandlerExit ==
    /\ pc = "unwind"
    /\ handlers[depth].kind = "log"
    /\ IF runsDeferred(frames[depth], panicking)
       THEN Emit(ws, frames[depth].stw, frames[depth].st, OptsOf(depth), depth)
       ELSE UNCHANGED <<logLines, customCalls>>
    /\ ReturnUpward
    /\ UNCHANGED <<handlers, optsBase, ws, frames, panicking, now, search>>
    /\ UNCHANGED appVars

(* Another middleware: it wraps the writer it received and calls the next *)
(* handler with the wrapper.                                              *)
OtherHandlerEnter ==
    /\ pc = "enter"
    /\ handlers[depth].kind \in {"wrap", "opaque"}
    /\ ws' = Append(ws, otherWriter(handlers[depth].kind))
    /\ frames' = Append(frames,
           [w |-> Len(ws), stw |-> 0, st |-> -1, deferred |-> FALSE,
            passed |-> Len(ws) + 1, found |-> 0])
    /\ ServeDownstream
    /\ UNCHANGED <<handlers, optsBase, panicking, now, logLines, customCalls,
                   search>>
    /\ UNCHANGED appVars

OtherHandlerExit ==
    /\ pc = "unwind"
    /\ handlers[depth].kind \in {"wrap", "opaque"}
    /\ ReturnUpward
    /\ UNCHANGED <<handlers, optsBase, ws, frames, panicking, now, logLines,
                   customCalls, search>>
    /\ UNCHANGED appVars

----------------------------------------------------------------------------
(* The application's handler, below the whole stack: it makes up to       *)
(* MaxOps calls on the writer it was given, then returns or panics.       *)

Codes == {200, 404}
Data == {"a"}
Rets == {"ok", "err"}

AppWriteHeader ==
    /\ pc = "app"
    /\ Len(ws[1].calls) < MaxOps
    /\ \E c \in Codes : ws' = WriterWriteHeader(ws, Len(ws), c)
    /\ now' = now + 1
    /\ UNCHANGED <<handlers, optsBase, pc, depth, frames, panicking, logLines,
                   customCalls, search>>
    /\ UNCHANGED appVars

AppWrite ==
    /\ pc = "app"
    /\ Len(ws[1].calls) < MaxOps
    /\ \E d \in Data, ret \in Rets : ws' = WriterWrite(ws, Len(ws), d, ret).wr
    /\ now' = now + 1
    /\ UNCHANGED <<handlers, optsBase, pc, depth, frames, panicking, logLines,
                   customCalls, search>>
    /\ UNCHANGED appVars

AppReturn ==
    /\ pc = "app"
    /\ pc' = IF depth = 0 THEN "done" ELSE "unwind"
    /\ UNCHANGED <<handlers, optsBase, ws, depth, frames, panicking, now,
                   logLines, customCalls, search>>
    /\ UNCHANGED appVars

AppPanic ==
    /\ pc = "app"
    /\ panicking' = TRUE
    /\ pc' = IF depth = 0 THEN "panicked" ELSE "unwind"
    /\ UNCHANGED <<handlers, optsBase, ws, depth, frames, now, logLines,
                   customCalls, search>>
    /\ UNCHANGED appVars

----------------------------------------------------------------------------
(* The App: the two registries of app.go and the goroutines that call     *)
(* RegisterTemplateCompiler and compileTemplate on it.                    *)

Procs == 1..MaxProcs

(* Extension keys and template paths the callers use. *)
ExtLower == <<".","a","m">>
ExtMixed == <<".","A","m">>
ExtKeys == {ExtLower, ExtMixed}

PathLower == <<"x",".","a","m">>
PathMixed == <<"X",".","A","m">>
PathNoExt == <<"d",".","a","m","/","y">>
Paths == {PathLower, PathMixed, PathNoExt}

(* The AmberCompiler values that are registered. *)
CompilerIds == {"c1", "c2"}

(* strings.ToLower *)
StringsToLower(s) == [i \in 1..Len(s) |-> ToLower(s[i])]

(* path.Ext: the suffix beginning at the final dot in the final           *)
(* slash-separated element of the path; empty if there is no dot.         *)
RECURSIVE ExtFrom(_, _)
ExtFrom(p, i) ==
    IF i < 1 \/ p[i] = "/" THEN <<>>
    ELSE IF p[i] = "." THEN SubSeq(p, i, Len(p))
    ELSE ExtFrom(p, i - 1)

PathExt(p) == ExtFrom(p, Len(p))

(* A Go map and an assignment m[k] = v. *)
EmptyMap == [x \in {} |-> "-"]
Put(m, k, v) == [x \in DOMAIN m \cup {k} |-> IF x = k THEN v ELSE m[x]]

(* sync.RWMutex. Lock first shuts out other writers and new readers (w is *)
(* the goroutine that did so), then waits for the readers inside to       *)
(* leave; RLock waits while a writer holds or waits for the lock.         *)
FreeMutex == [w |-> 0, held |-> FALSE, readers |-> {}]

LockFree(m) == m.w = 0
LockBegin(m, g) == [m EXCEPT !.w = g]
Drained(m, g) == m.w = g /\ m.readers = {}
LockAcquire(m, g) == [m EXCEPT !.held = TRUE]
Unlock(m, g) == [m EXCEPT !.w = 0, !.held = FALSE]

(* RLock that does not wait for a writer. *)
RLockFreeAlways(m) == TRUE

RLockFree(m) == m.w = 0
RLock(m, g) == [m EXCEPT !.readers = @ \cup {g}]

(* A return that leaves the read lock held. *)
RUnlockForgotten(m, g) == m

RUnlock(m, g) == [m EXCEPT !.readers = @ \ {g}]

(* A goroutine: where it is in its call, the call's argument (a path or   *)
(* an extension key), the compiler passed or found, the template          *)
(* compiled, the error returned, and how often the call ran Compile and   *)
(* stored a template.                                                     *)
NoTemplater == [file |-> <<>>, by |-> "-"]

Idle ==
    [pc |-> "idle", p |-> <<>>, c |-> "-", t |-> NoTemplater, ret |-> "-",
     nCompile |-> 0, nStore |-> 0]

(* The App before any registration: both maps made and empty, both locks  *)
(* free, no compiler used yet.                                            *)
AppInit ==
    /\ compilers = EmptyMap
    /\ templates = EmptyMap
    /\ mc = FreeMutex
    /\ mt = FreeMutex
    /\ gor = [g \in Procs |-> Idle]
    /\ amber = [c \in CompilerIds |-> [cached |-> FALSE, parsed |-> <<>>]]
    /\ nCalls = 0

At(g, l) == gor[g].pc = l
Goto(g, l) == gor' = [gor EXCEPT ![g].pc = l]

(* RegisterTemplateCompiler(ext, c) *)
RegisterTemplateCompilerCall(g) ==
    /\ At(g, "idle")
    /\ nCalls < MaxCalls
    /\ \E ext \in ExtKeys, c \in CompilerIds :
          gor' = [gor EXCEPT ![g] = [Idle EXCEPT !.pc = "r_lock",
                                                 !.p = ext, !.c = c]]
    /\ nCalls' = nCalls + 1
    /\ UNCHANGED <<compilers, templates, mc, mt, amber>>
    /\ UNCHANGED logVars

RegisterLock(g) ==
    /\ At(g, "r_lock")
    /\ LockFree(mc)
    /\ mc' = LockBegin(mc, g)
    /\ Goto(g, "r_wait")
    /\ UNCHANGED <<compilers, templates, mt, amber, nCalls>>
    /\ UNCHANGED logVars

RegisterLocked(g) ==
    /\ At(g, "r_wait")
    /\ Drained(mc, g)
    /\ mc' = LockAcquire(mc, g)
    /\ Goto(g, "r_store")
    /\ UNCHANGED <<compilers, templates, mt, amber, nCalls>>
    /\ UNCHANGED logVars

RegisterStore(g) ==
    /\ At(g, "r_store")
    /\ compilers' = Put(compilers, gor[g].p, gor[g].c)
    /\ Goto(g, "r_unlock")
    /\ UNCHANGED <<templates, mc, mt, amber, nCalls>>
    /\ UNCHANGED logVars

RegisterUnlock(g) ==
    /\ At(g, "r_unlock")
    /\ mc' = Unlock(mc, g)
    /\ gor' = [gor EXCEPT ![g] = Idle]
    /\ UNCHANGED <<compilers, templates, mt, amber, nCalls>>
    /\ UNCHANGED logVars

(* compileTemplate(p) *)
compileTemplateCall(g) ==
    /\ At(g, "idle")
    /\ nCalls < MaxCalls
    /\ \E p \in Paths :
          gor' = [gor EXCEPT ![g] = [Idle EXCEPT !.pc = "c_rlock", !.p = p]]
    /\ nCalls' = nCalls + 1
    /\ UNCHANGED <<compilers, templates, mc, mt, amber>>
    /\ UNCHANGED logVars

compileTemplateRLock(g) ==
    /\ At(g, "c_rlock")
    /\ RLockFree(mc)
    /\ mc' = RLock(mc, g)
    /\ Goto(g, "c_lookup")
    /\ UNCHANGED <<compilers, templates, mt, amber, nCalls>>
    /\ UNCHANGED logVars

(* ext := strings.ToLower(path.Ext(p)); c, ok := this.compilers[ext] *)
compileTemplateLookup(g) ==
    /\ At(g, "c_lookup")
    /\ LET ext == StringsToLower(PathExt(gor[g].p))
       IN IF ext \in DOMAIN compilers
          THEN gor' = [gor EXCEPT ![g].c = compilers[ext],
                                  ![g].pc = "c_parse"]
          ELSE gor' = [gor EXCEPT ![g].ret = "nil", ![g].pc = "c_runlock"]
    /\ UNCHANGED <<compilers, templates, mc, mt, amber, nCalls>>
    /\ UNCHANGED logVars

(* AmberCompiler.Compile(f), first half: make the cached compiler if      *)
(* there is none, set its options, and ParseFile(f).                      *)
AmberCompileParse(g) ==
    /\ At(g, "c_parse")
    /\ \E ok \in BOOLEAN :
          IF ok
          THEN /\ amber' = [amber EXCEPT ![gor[g].c] =
                               [cached |-> TRUE, parsed |-> gor[g].p]]
               /\ gor' = [gor EXCEPT ![g].nCompile = @ + 1,
                                     ![g].pc = "c_compile"]
          ELSE /\ amber' = [amber EXCEPT ![gor[g].c].cached = TRUE]
               /\ gor' = [gor EXCEPT ![g].nCompile = @ + 1,
                                     ![g].ret = "err",
                                     ![g].pc = "c_runlock"]
    /\ UNCHANGED <<compilers, templates, mc, mt, nCalls>>
    /\ UNCHANGED logVars

(* AmberCompiler.Compile(f), second half: this.c.Compile(), which         *)
(* compiles what the cached compiler parsed last.                         *)
AmberCompileFinish(g) ==
    /\ At(g, "c_compile")
    /\ \E ok \in BOOLEAN :
          IF ok
          THEN gor' = [gor EXCEPT
                          ![g].t = [file |-> amber[gor[g].c].parsed,
                                    by |-> gor[g].c],
                          ![g].pc = "t_lock"]
          ELSE gor' = [gor EXCEPT ![g].ret = "err", ![g].pc = "c_runlock"]
    /\ UNCHANGED <<compilers, templates, mc, mt, amber, nCalls>>
    /\ UNCHANGED logVars

(* addTemplater(strings.ToLower(p), t) *)
addTemplaterLock(g) ==
    /\ At(g, "t_lock")
    /\ LockFree(mt)
    /\ mt' = LockBegin(mt, g)
    /\ Goto(g, "t_wait")
    /\ UNCHANGED <<compilers, templates, mc, amber, nCalls>>
    /\ UNCHANGED logVars

addTemplaterLocked(g) ==
    /\ At(g, "t_wait")
    /\ Drained(mt, g)
    /\ mt' = LockAcquire(mt, g)
    /\ Goto(g, "t_store")
    /\ UNCHANGED <<compilers, templates, mc, amber, nCalls>>
    /\ UNCHANGED logVars

addTemplaterStore(g) ==
    /\ At(g, "t_store")
    /\ templates' = Put(templates,
                        StringsToLower(StringsToLower(gor[g].p)), gor[g].t)
    /\ gor' = [gor EXCEPT ![g].nStore = @ + 1, ![g].pc = "t_unlock"]
    /\ UNCHANGED <<compilers, mc, mt, amber, nCalls>>
    /\ UNCHANGED logVars

addTemplaterUnlock(g) ==
    /\ At(g, "t_unlock")
    /\ mt' = Unlock(mt, g)
    /\ gor' = [gor EXCEPT ![g].ret = "nil", ![g].pc = "c_runlock"]
    /\ UNCHANGED <<compilers, templates, mc, amber, nCalls>>
    /\ UNCHANGED logVars

(* The deferred this.mc.RUnlock() and the return. *)
compileTemplateReturn(g) ==
    /\ At(g, "c_runlock")
    /\ mc' = RUnlock(mc, g)
    /\ gor' = [gor EXCEPT ![g] = Idle]
    /\ UNCHANGED <<compilers, templates, mt, amber, nCalls>>
    /\ UNCHANGED logVars

----------------------------------------------------------------------------
(* The request: a stack of up to MaxLayers handlers above the application *)

LogLayer(imm) == [kind |-> "log", immediate |-> imm]
OtherLayer(k) == [kind |-> k, immediate |-> FALSE]
Layers == {LogLayer(TRUE), LogLayer(FALSE), OtherLayer("wrap"),
           OtherLayer("opaque")}

SeqsUpTo(S, n) == UNION {[1..k -> S] : k \in 0..n}

CustomMap ==
    (T_custom :> "fnA") @@ (T_nilfn :> "nil") @@ (T_status :> "fnStatus")
    @@ (T_req_x_id :> "fnA") @@ (T_res_empty :> "fnStatus")

(* Options of the handler stacks: the tiny format, and a literal format   *)
(* with a built-in, a custom and an unknown token.                        *)
HandlerOpts ==
    {NewLogOptions("nil", Ltiny, <<>>),
     [NewLogOptions("L", FmtLiteral, <<T_status, T_custom, T_unknown>>)
         EXCEPT !.CustomTokens = CustomMap]}

Init ==
    /\ handlers \in SeqsUpTo(Layers, MaxLayers)
    /\ optsBase \in HandlerOpts
    /\ ws = <<serverWriter(NoHeader)>>
    /\ pc = IF handlers = <<>> THEN "app" ELSE "enter"
    /\ depth = IF handlers = <<>> THEN 0 ELSE 1
    /\ frames = <<>>
    /\ panicking = FALSE
    /\ now = 0
    /\ logLines = <<>>
    /\ customCalls = <<>>
    /\ search = NoSearch
    /\ AppInit

Next ==
    \/ LogHandlerEnter
    \/ LogHandlerExit
    \/ OtherHandlerEnter
    \/ OtherHandlerExit
    \/ AppWriteHeader
    \/ AppWrite
    \/ AppReturn
    \/ AppPanic

Spec == Init /\ [][Next]_vars

----------------------------------------------------------------------------
(* Properties of the handler stack *)

Finished == pc \in {"done", "panicked"}

(* The handler at position i has returned or has been left by a panic. *)
HandlerFinished(i) == Finished \/ (pc = "unwind" /\ depth < i)

(* Log lines emitted by the handler at position i *)
LinesBy(i) == Cardinality({k \in 1..Len(logLines) : logLines[k].by = i})

(* Writer w, or a writer reachable from it through wrappers that reveal   *)
(* their inner writer, is a status writer.                                *)
StatusOnEntry(w) ==
    \E j \in 1..w : /\ ws[j].kind = "status"
                    /\ \A k \in (j + 1)..w : ws[k].kind = "wrap"

StatusWriters == {j \in 1..Len(ws) : ws[j].kind = "status"}

(* C1: two LogHandler instances in direct nesting emit one line between   *)
(* them: the inner one finds the status writer the outer one installed or *)
(* found, installs nothing and emits nothing, whatever the Immediate      *)
(* flags; a request served by just the two gets exactly one line.         *)
C1_NestedLogsOnce ==
    \A i \in 1..(Len(handlers) - 1) :
        (handlers[i].kind = "log" /\ handlers[i + 1].kind = "log") =>
            /\ LinesBy(i + 1) = 0
            /\ Len(frames) >= i + 1 =>
                  /\ frames[i + 1].stw = 0
                  /\ frames[i + 1].passed = frames[i + 1].w
                  /\ frames[i + 1].found =
                        IF frames[i].stw # 0 THEN frames[i].stw
                        ELSE frames[i].found
                  /\ frames[i + 1].found \in StatusWriters
            /\ (Finished /\ ~StatusOnEntry(frames[i].w)) => LinesBy(i) = 1
            /\ (Finished /\ Len(handlers) = 2) => Len(logLines) = 1

C1_Witness ==
    /\ pc = "panicked"
    /\ Len(handlers) = 2
    /\ handlers[1] = LogLayer(TRUE) /\ handlers[2] = LogLayer(FALSE)
    /\ Len(logLines) = 1
    /\ frames[2].found = frames[1].stw

(* C2: a deferred-mode LogHandler that received a chain without a status  *)
(* writer calls logRequest exactly once, after its downstream handler has *)
(* finished, whether that one returned or panicked; the panic is not      *)
(* swallowed.                                                             *)
C2_DeferredLogsOnceAfter ==
    /\ \A i \in 1..Len(frames) :
        (handlers[i] = LogLayer(FALSE) /\ ~StatusOnEntry(frames[i].w)) =>
            /\ LinesBy(i) = IF HandlerFinished(i) THEN 1 ELSE 0
            /\ \A k \in 1..Len(logLines) :
                  logLines[k].by = i => logLines[k].phase = "unwind"
    /\ panicking => pc \in {"unwind", "panicked"}

C2_Witness ==
    /\ pc = "panicked"
    /\ Len(ws[1].calls) >= 1
    /\ \E i \in 1..Len(frames) :
          /\ handlers[i] = LogLayer(FALSE)
          /\ ~StatusOnEntry(frames[i].w)
          /\ LinesBy(i) = 1

(* C3: an immediate-mode LogHandler that received a chain without a       *)
(* status writer emits its line once, before the downstream handler is    *)
(* called, and no further line when that handler returns or panics.       *)
C3_ImmediateLogsOnceBefore ==
    \A i \in 1..Len(frames) :
        (handlers[i] = LogLayer(TRUE) /\ ~StatusOnEntry(frames[i].w)) =>
            /\ LinesBy(i) = 1
            /\ \A k \in 1..Len(logLines) :
                  logLines[k].by = i =>
                      logLines[k].phase = "enter" /\ logLines[k].code = 0

C3_Witness ==
    /\ Finished
    /\ Len(ws[1].calls) >= 1
    /\ \E i \in 1..Len(frames) :
          /\ handlers[i] = LogLayer(TRUE)
          /\ ~StatusOnEntry(frames[i].w)
          /\ LinesBy(i) = 1

C5_CapturedIsSent ==
    \A j \in StatusWriters : ws[j].calls # <<>> => ws[j].code = ws[1].sent

(* C6: every call made on a status writer reaches the writer it wraps     *)
(* once, with the same argument, in the same order, and Write returns     *)
(* what the wrapped writer returned.                                      *)
C6_CallsForwarded ==
    \A j \in StatusWriters : ws[j].calls = ws[j - 1].calls

C6_Witness ==
    \E j \in StatusWriters :
        /\ Len(ws[j].calls) >= 2
        /\ ws[j].calls[1].op = "WriteHeader"
        /\ ws[j].calls[2] = Call("Write", 0, "a", "err")
        /\ ws[j - 1].calls = ws[j].calls
        /\ Len(logLines) >= 1

----------------------------------------------------------------------------
(* The chain search on its own: any chain of up to MaxDepth writers above *)
(* and including the server's, searched from its outermost writer.        *)

Kinds == {"server", "status", "wrap", "opaque"}
Preds == {{}, {"status"}, {"wrap"}, {"opaque"}, {"server"}, {"status", "wrap"}}

FixedOpts == NewLogOptions("nil", Ltiny, <<>>)

InitChain ==
    /\ \E above \in SeqsUpTo({statusResponseWriter(0), otherWriter("wrap"),
                              otherWriter("opaque")}, MaxDepth - 1) :
          ws = <<serverWriter(NoHeader)>> \o above
    /\ handlers = <<>>
    /\ optsBase = FixedOpts
    /\ pc = "chain"
    /\ depth = 0
    /\ frames = <<>>
    /\ panicking = FALSE
    /\ now = 0
    /\ logLines = <<>>
    /\ customCalls = <<>>
    /\ search = NoSearch
    /\ AppInit

ChainSearch ==
    /\ pc = "chain"
    /\ \E pred \in Preds :
          search' = GetResponseWriter(ws, Len(ws), pred, 0) @@
                    [from |-> Len(ws), pred |-> pred]
    /\ UNCHANGED <<handlers, optsBase, ws, pc, depth, frames, panicking, now,
                   logLines, customCalls>>
    /\ UNCHANGED appVars

ChainGetStatusWriter ==
    /\ pc = "chain"
    /\ search' = getStatusWriter(ws, Len(ws)) @@
                 [from |-> Len(ws), pred |-> isStatusWriter]
    /\ UNCHANGED <<handlers, optsBase, ws, pc, depth, frames, panicking, now,
                   logLines, customCalls>>
    /\ UNCHANGED appVars

NextChain == ChainSearch \/ ChainGetStatusWriter

SpecChain == InitChain /\ [][NextChain]_vars


(* The innermost writer the search can reach from writer h: the first one *)
(* on the way inward that does not reveal the writer it wraps.            *)
LastReachable(h) ==
    CHOOSE j \in 1..h :
        /\ ws[j].kind \in {"server", "opaque"}
        /\ \A k \in (j + 1)..h : ws[k].kind \in {"status", "wrap"}

(* C7: a search from writer h tests the writers from h inward. It returns *)
(* the first match, at depth k, after k tests; with no match among the N  *)
(* writers it can reach it returns "not found" after N tests, the last of *)
(* them on the writer that reveals no inner writer; it never makes more   *)
(* tests than there are writers.                                          *)
C7_SearchFindsFirstMatch ==
    search.from # 0 =>
        LET h == search.from
            last == LastReachable(h)
            matches == {j \in last..h : ws[j].kind \in search.pred}
        IN /\ search.tests <= h
           /\ IF matches # {}
              THEN LET m == CHOOSE j \in matches : \A k \in matches : k <= j
                   IN /\ search.ok
                      /\ search.w = m
                      /\ search.tests = h - m + 1
              ELSE /\ ~search.ok
                   /\ search.w = 0
                   /\ search.tests = h - last + 1

(* Found at depth 3 of 4, below a status writer the predicate rejects. *)
C7_Witness ==
    /\ pc = "chain"
    /\ Len(ws) = 4
    /\ ws[4].kind = "status" /\ ws[3].kind = "wrap" /\ ws[2].kind = "wrap"
    /\ search.pred = {"wrap"} /\ search.from = 4
    /\ search.ok /\ search.w = 3 /\ search.tests = 2

C7_WitnessAbsent ==
    /\ pc = "chain"
    /\ Len(ws) = 4
    /\ \A j \in 2..4 : ws[j].kind = "wrap"
    /\ search.pred = {"status"} /\ search.from = 4
    /\ ~search.ok /\ search.tests = 4

----------------------------------------------------------------------------
(* logRequest on its own: one call for a status writer in one of the      *)
(* states a handler can leave it in, under any of the options FmtOpts.    *)

TokenNames ==
    {T_status, T_method, T_referer, T_response_time, T_req_x_id,
     T_res_content_length, T_res_empty, T_req_trail, T_custom, T_nilfn,
     T_unknown}

Formats == {Ldefault, Lshort, Ltiny, Lmedium, FmtLiteral}

FmtOpts ==
    {[NewLogOptions(l, ft, tok) EXCEPT !.CustomTokens = ct] :
        l \in {"nil", "L"}, ft \in Formats,
        tok \in SeqsUpTo(TokenNames, MaxToks),
        ct \in {[x \in {} |-> "nil"], CustomMap}}

ContentLength5 == (H_Content_Length :> <<"5">>)

FmtWriters ==
    {<<serverWriter(NoHeader), statusResponseWriter(0)>>,
     WriterWriteHeader(
         <<serverWriter(NoHeader), statusResponseWriter(0)>>, 2, 404),
     WriterWrite(
         <<serverWriter(ContentLength5), statusResponseWriter(0)>>,
         2, "a", "ok").wr,
     WriterWrite(
         WriterWriteHeader(
             <<serverWriter(ContentLength5), statusResponseWriter(0)>>,
             2, StatusOK),
         2, "a", "ok").wr}

InitFmt ==
    /\ optsBase \in FmtOpts
    /\ ws \in FmtWriters
    /\ handlers = <<LogLayer(FALSE)>>
    /\ pc = "fmt"
    /\ depth = 1
    /\ frames = <<[w |-> 1, stw |-> 2, st |-> 0, deferred |-> TRUE,
                   passed |-> 2, found |-> 0]>>
    /\ panicking = FALSE
    /\ now = Len(ws[1].calls)
    /\ logLines = <<>>
    /\ customCalls = <<>>
    /\ search = NoSearch
    /\ AppInit

FmtLogRequest ==
    /\ pc = "fmt"
    /\ Emit(ws, frames[1].stw, frames[1].st, optsBase, 1)
    /\ pc' = "fmtdone"
    /\ UNCHANGED <<handlers, optsBase, ws, depth, frames, panicking, now,
                   search>>
    /\ UNCHANGED appVars

NextFmt == FmtLogRequest

SpecFmt == InitFmt /\ [][NextFmt]_vars


----------------------------------------------------------------------------
(* The App on its own: up to MaxProcs goroutines make up to MaxCalls      *)
(* calls between them, in any interleaving; no request is being logged.   *)

InitApp ==
    /\ handlers = <<>>
    /\ optsBase = FixedOpts
    /\ ws = <<serverWriter(NoHeader)>>
    /\ pc = "done"
    /\ depth = 0
    /\ frames = <<>>
    /\ panicking = FALSE
    /\ now = 0
    /\ logLines = <<>>
    /\ customCalls = <<>>
    /\ search = NoSearch
    /\ AppInit

(* The steps of a call that goroutine g has begun. *)
Proceed(g) ==
    \/ RegisterLock(g)
    \/ RegisterLocked(g)
    \/ RegisterStore(g)
    \/ RegisterUnlock(g)
    \/ compileTemplateRLock(g)
    \/ compileTemplateLookup(g)
    \/ AmberCompileParse(g)
    \/ AmberCompileFinish(g)
    \/ addTemplaterLock(g)
    \/ addTemplaterLocked(g)
    \/ addTemplaterStore(g)
    \/ addTemplaterUnlock(g)
    \/ compileTemplateReturn(g)

NextApp ==
    \E g \in Procs :
        \/ RegisterTemplateCompilerCall(g)
        \/ compileTemplateCall(g)
        \/ Proceed(g)

SpecApp == InitApp /\ [][NextApp]_vars

(* A goroutine that can take a step is scheduled, and Compile returns. *)
SpecAppFair == SpecApp /\ \A g \in Procs : WF_vars(Proceed(g))

----------------------------------------------------------------------------
(* Properties of logRequest. The token names are classified and their     *)
(* values written out here as the specification gives them.               *)

BuiltinNames ==
    {T_http_version, T_response_time, T_remote_addr, T_date, T_method, T_url,
     T_referrer, T_referer, T_user_agent, T_status}

(* The names among TokenNames and the predefined lists that have the      *)
(* shape req[Name] or res[Name] with a non-empty Name without "]".        *)
HeaderShaped == {T_req_x_id, T_res_content_length}

Registered(t) ==
    t \in DOMAIN optsBase.CustomTokens /\ optsBase.CustomTokens[t] # "nil"

UnknownToken(t) ==
    t \notin BuiltinNames /\ t \notin HeaderShaped /\ ~Registered(t)

BuiltinValue(t, L) ==
    CASE t = T_http_version -> StrVal(<<"1", ".", "1">>)
      [] t = T_response_time -> FloatVal(now - frames[L.by].st)
      [] t = T_remote_addr -> StrVal(<<"1","2","7",".","0",".","0",".","1">>)
      [] t = T_date -> StrVal(RFC3339 \o <<"@">> \o Itoa(now))
      [] t = T_method -> StrVal(<<"G","E","T">>)
      [] t = T_url -> StrVal(<<"/","x">>)
      [] t \in {T_referrer, T_referer} -> StrVal(<<>>)
      [] t = T_user_agent -> StrVal(<<"c","u","r","l">>)
      [] t = T_status -> IntVal(L.code)

HeaderValue(t) ==
    IF t = T_req_x_id THEN StrVal(<<"7">>)
    ELSE StrVal(IF ws[1].header = ContentLength5 THEN <<"5">> ELSE <<>>)

CustomValue(f, L) ==
    IF f = "fnA" THEN <<"A">> ELSE <<"G","E","T",":">> \o Itoa(L.code)

OwnValue(t, L) ==
    IF t \in BuiltinNames THEN BuiltinValue(t, L)
    ELSE IF t \in HeaderShaped THEN HeaderValue(t)
    ELSE IF Registered(t) THEN StrVal(CustomValue(optsBase.CustomTokens[t], L))
    ELSE StrVal(<<"?">>)

CallsAt(i) == {c \in 1..Len(customCalls) : customCalls[c].pos = i}

(* C8: a token that is no built-in name, has no header shape and has no   *)
(* non-nil custom function resolves to "?"; the other tokens of the list  *)
(* keep their own values at their own positions, and the sink is called   *)
(* once, with one value per token.                                        *)
C8_UnknownTokenPlaceholder ==
    /\ pc = "fmtdone" => Len(logLines) = 1
    /\ \A k \in 1..Len(logLines) :
          LET L == logLines[k] IN
          (\E i \in 1..Len(L.toks) : UnknownToken(L.toks[i])) =>
              /\ Len(L.args) = Len(L.toks)
              /\ \A i \in 1..Len(L.toks) :
                    IF UnknownToken(L.toks[i])
                    THEN L.args[i] = StrVal(<<"?">>)
                    ELSE L.args[i] = OwnValue(L.toks[i], L)

C8_Witness ==
    /\ pc = "fmtdone"
    /\ Len(logLines) = 1
    /\ logLines[1].toks = <<T_unknown, T_status>>
    /\ logLines[1].args = <<StrVal(<<"?">>), IntVal(404)>>

(* C9: built-in names come first, then the header shape, then the custom  *)
(* mapping, then "?". A custom function under a built-in or header-shaped *)
(* name is not called; one that is reached is called once per occurrence, *)
(* in order, with the status writer and the request, and its result is    *)
(* the value passed on.                                                   *)
C9_TokenPrecedence ==
    /\ logLines = <<>> => customCalls = <<>>
    /\ \A c \in 1..Len(customCalls) :
          \A d \in 1..Len(customCalls) :
              c < d => customCalls[c].pos < customCalls[d].pos
    /\ \A k \in 1..Len(logLines) :
          LET L == logLines[k] IN
          \A i \in 1..Len(L.toks) :
              LET t == L.toks[i] IN
              IF t \in BuiltinNames
              THEN L.args[i] = BuiltinValue(t, L) /\ CallsAt(i) = {}
              ELSE IF t \in HeaderShaped
              THEN L.args[i] = HeaderValue(t) /\ CallsAt(i) = {}
              ELSE IF Registered(t)
              THEN /\ Cardinality(CallsAt(i)) = 1
                   /\ \A c \in CallsAt(i) :
                         /\ customCalls[c].f = optsBase.CustomTokens[t]
                         /\ customCalls[c].w = L.w
                         /\ ws[customCalls[c].w].kind = "status"
                         /\ customCalls[c].r = Request
                         /\ L.args[i] = StrVal(CustomValue(customCalls[c].f, L))
              ELSE L.args[i] = StrVal(<<"?">>) /\ CallsAt(i) = {}

(* "status" is registered as a custom token too, and is not called. *)
C9_Witness ==
    /\ pc = "fmtdone"
    /\ Registered(T_status)
    /\ logLines[1].toks = <<T_status, T_res_empty>>
    /\ logLines[1].args = <<IntVal(200), StrVal(<<"G","E","T",":","2","0","0">>)>>
    /\ Len(customCalls) = 1
    /\ customCalls[1].pos = 2

(* C10: a predefined identifier selects its fixed format string and token *)
(* order, whatever opts.Tokens holds; any other Format is the format      *)
(* string itself, with opts.Tokens as the token order. The i-th value     *)
(* passed to the sink is the value of the i-th token of that order.       *)
C10_FormatSelection ==
    \A k \in 1..Len(logLines) :
        LET L == logLines[k] IN
        /\ IF optsBase.Format = Ldefault
           THEN /\ L.format = FmtDefault
                /\ L.toks = <<T_remote_addr, T_date, T_method, T_url,
                              T_http_version, T_status, T_res_content_length,
                              T_referrer, T_user_agent>>
           ELSE IF optsBase.Format = Lshort
           THEN /\ L.format = FmtShort
                /\ L.toks = <<T_remote_addr, T_method, T_url, T_http_version,
                              T_status, T_res_content_length, T_response_time>>
           ELSE IF optsBase.Format = Ltiny
           THEN /\ L.format = FmtTiny
                /\ L.toks = <<T_method, T_url, T_status, T_res_content_length,
                              T_response_time>>
           ELSE /\ L.format = optsBase.Format
                /\ L.toks = optsBase.Tokens
        /\ Len(L.args) = Len(L.toks)
        /\ \A i \in 1..Len(L.toks) : L.args[i] = OwnValue(L.toks[i], L)
        /\ L.fn = IF optsBase.Logger = "nil" THEN "log.Printf"
                  ELSE optsBase.Logger

(* A predefined identifier with a caller's token list, which is ignored. *)
C10_Witness ==
    /\ pc = "fmtdone"
    /\ optsBase.Format = Ltiny
    /\ optsBase.Tokens = <<T_unknown, T_custom>>
    /\ logLines[1].format = FmtTiny
    /\ Len(logLines[1].args) = 5
    /\ logLines[1].args[3] = IntVal(404)

(* An unknown identifier, used as the format string itself. *)
C10_WitnessLiteral ==
    /\ pc = "fmtdone"
    /\ optsBase.Format = Lmedium
    /\ optsBase.Tokens = <<T_method, T_status>>
    /\ logLines[1].format = Lmedium
    /\ logLines[1].args = <<StrVal(<<"G","E","T">>), IntVal(0)>>


----------------------------------------------------------------------------
(* Further properties of the handler stack *)

(* The call just made on status writer j, when the step made one. *)
CalledOn(j) == Len(ws'[j].calls) = Len(ws[j].calls) + 1
LastCall(j) == ws'[j].calls[Len(ws'[j].calls)]
NoWriteYet(j) ==
    \A k \in 1..Len(ws[j].calls) : ws[j].calls[k].op # "Write"

(* C14: a Write on a status writer whose code is nonzero leaves the code  *)
(* unchanged, a Write on one whose code is 0 sets it to 200, and a        *)
(* WriteHeader(code) made before the first Write sets it to code.         *)
C14_WriteOnlySetsUnset ==
    [][\A j \in StatusWriters :
          CalledOn(j) =>
              /\ (LastCall(j).op = "Write" /\ ws[j].code # 0)
                    => ws'[j].code = ws[j].code
              /\ (LastCall(j).op = "Write" /\ ws[j].code = 0)
                    => ws'[j].code = StatusOK
              /\ (LastCall(j).op = "WriteHeader" /\ NoWriteYet(j))
                    => ws'[j].code = LastCall(j).code]_vars

C14_Witness ==
    \E j \in StatusWriters :
        /\ Len(ws[j].calls) = 2
        /\ ws[j].calls[1] = Call("WriteHeader", 404, "", "-")
        /\ ws[j].calls[2].op = "Write"
        /\ ws[j].code = 404

(* C15: a LogHandler that finds a status writer in the chain it received  *)
(* creates no writer, reads no clock, emits nothing, and calls the next   *)
(* handler with the writer it received; on the way back it changes no     *)
(* writer either.                                                         *)
C15_FoundMeansUntouched ==
    /\ [][(/\ pc = "enter"
           /\ handlers[depth].kind = "log"
           /\ getStatusWriter(ws, Len(ws)).ok)
          => /\ ws' = ws
             /\ logLines' = logLines
             /\ now' = now
             /\ Len(frames') = Len(frames) + 1
             /\ frames'[depth].w = Len(ws)
             /\ frames'[depth].passed = Len(ws)
             /\ frames'[depth].stw = 0
             /\ frames'[depth].st = -1
             /\ ~frames'[depth].deferred
             /\ \/ pc' = "app" /\ depth = Len(handlers)
                \/ pc' = "enter" /\ depth' = depth + 1]_vars
    /\ [][pc = "unwind" => ws' = ws]_vars
    /\ [](\A i \in 1..Len(frames) :
             (handlers[i].kind = "log" /\ frames[i].stw = 0) =>
                 LinesBy(i) = 0)

C15_Witness ==
    /\ Finished
    /\ Len(handlers) = 3
    /\ handlers[1].kind = "log" /\ handlers[2].kind = "wrap"
    /\ handlers[3].kind = "log"
    /\ frames[3].stw = 0 /\ frames[3].found = 2 /\ frames[3].passed = 3
    /\ Len(ws) = 3
    /\ ws[2].code = 404

(* The code a status writer holds after the calls made on it. *)
RECURSIVE CodeAfter(_)
CodeAfter(calls) ==
    IF calls = <<>> THEN 0
    ELSE LET c == calls[Len(calls)]
             before == CodeAfter(SubSeq(calls, 1, Len(calls) - 1))
         IN IF c.op = "WriteHeader" THEN c.code
            ELSE IF before = 0 THEN StatusOK ELSE before

(* C16: the status value of a line emitted in deferred mode is the code   *)
(* its status writer holds when the downstream handler has finished: the  *)
(* outcome of every WriteHeader and Write made through the chain, and 0   *)
(* when none was made.                                                    *)
C16_DeferredStatusIsFinal ==
    \A k \in 1..Len(logLines) :
        LET L == logLines[k] IN
        L.phase = "unwind" =>
            /\ L.code = ws[L.w].code
            /\ L.code = CodeAfter(ws[L.w].calls)
            /\ ws[L.w].calls = ws[1].calls
            /\ \A i \in 1..Len(L.toks) :
                  L.toks[i] = T_status =>
                      L.args[i] = IntVal(CodeAfter(ws[1].calls))

(* A nested LogHandler sits between the writer and the application. *)
C16_Witness ==
    /\ Finished
    /\ Len(handlers) = 2
    /\ handlers[1] = LogLayer(FALSE) /\ handlers[2].kind = "log"
    /\ Len(logLines) >= 1
    /\ logLines[Len(logLines)].phase = "unwind"
    /\ logLines[Len(logLines)].toks[1] = T_status
    /\ logLines[Len(logLines)].args[1] = IntVal(404)
    /\ Len(ws[1].calls) = 2

C16_WitnessNoWrite ==
    /\ Finished
    /\ ws[1].calls = <<>>
    /\ Len(logLines) = 1
    /\ logLines[1].phase = "unwind"
    /\ logLines[1].toks[1] = T_status
    /\ logLines[1].args[1] = IntVal(0)

(* C17 as stated: the writers of a request hold at most one status        *)
(* writer, whatever wrappers lie between the LogHandler instances.        *)
C17_AtMostOneStatusWriter == Cardinality(StatusWriters) <= 1

(* C17 as amended: no status writer is installed above a writer from      *)
(* which a status writer can be reached through wrappers that reveal the  *)
(* writer they wrap; a stack without a non-revealing wrapper has at most  *)
(* one status writer.                                                     *)
C17_OneStatusWriterPerVisibleChain ==
    /\ \A j \in StatusWriters : ~StatusOnEntry(j - 1)
    /\ (\A i \in 1..Len(handlers) : handlers[i].kind # "opaque")
          => Cardinality(StatusWriters) <= 1

C17_Witness ==
    /\ pc = "app"
    /\ Len(handlers) = 3
    /\ handlers[1].kind = "log" /\ handlers[2].kind = "wrap"
    /\ handlers[3].kind = "log"
    /\ StatusWriters = {2}


----------------------------------------------------------------------------
(* The predefined formats, rendered *)

Predefined == {Ldefault, Lshort, Ltiny}

(* The positions of the placeholders of a format string, in order, and    *)
(* the kind of value each one takes.                                      *)
Percents(f) ==
    SelectSeq([i \in 1..Len(f) |-> i], LAMBDA i : f[i] = "%")

SlotKind(f, i) ==
    IF f[i + 1] = "s" THEN "string"
    ELSE IF f[i + 1] = "d" THEN "int"
    ELSE IF SubSeq(f, i + 1, i + 3) = <<".", "3", "f">> THEN "float64"
    ELSE "none"

(* The text of a token's value: a string as it is, an integer in decimal, *)
(* a duration in seconds with three decimals.                             *)
FieldText(t, L) ==
    LET v == OwnValue(t, L)
    IN IF v.k = "string" THEN v.s
       ELSE IF v.k = "int" THEN Itoa(v.n)
       ELSE Itoa(v.n \div 1000) \o <<".">> \o
            <<Digits[((v.n \div 100) % 10) + 1],
              Digits[((v.n \div 10) % 10) + 1], Digits[(v.n % 10) + 1]>>

(* The three layouts, each field name standing for its token's text. *)
Layout(name, L) ==
    IF name = Ldefault
    THEN FieldText(T_remote_addr, L) \o <<" ","-"," ","-"," ","[">>
         \o FieldText(T_date, L) \o <<"]"," ","\"">>
         \o FieldText(T_method, L) \o <<" ">> \o FieldText(T_url, L)
         \o <<" ","H","T","T","P","/">> \o FieldText(T_http_version, L)
         \o <<"\""," ">> \o FieldText(T_status, L) \o <<" ">>
         \o FieldText(T_res_content_length, L) \o <<" ","\"">>
         \o FieldText(T_referrer, L) \o <<"\""," ","\"">>
         \o FieldText(T_user_agent, L) \o <<"\"">>
    ELSE IF name = Lshort
    THEN FieldText(T_remote_addr, L) \o <<" ","-"," ">>
         \o FieldText(T_method, L) \o <<" ">> \o FieldText(T_url, L)
         \o <<" ","H","T","T","P","/">> \o FieldText(T_http_version, L)
         \o <<" ">> \o FieldText(T_status, L) \o <<" ">>
         \o FieldText(T_res_content_length, L) \o <<" ","-"," ">>
         \o FieldText(T_response_time, L) \o <<" ","s">>
    ELSE FieldText(T_method, L) \o <<" ">> \o FieldText(T_url, L)
         \o <<" ">> \o FieldText(T_status, L) \o <<" ">>
         \o FieldText(T_res_content_length, L) \o <<" ","-"," ">>
         \o FieldText(T_response_time, L) \o <<" ","s">>

(* C11: in each predefined format the format string has as many           *)
(* placeholders as the token list has tokens, each placeholder takes the  *)
(* kind of value its token resolves to, and the line rendered is the      *)
(* layout with each field name replaced by the text of its token's value. *)
C11_PredefinedFormatsRender ==
    \A k \in 1..Len(logLines) :
        LET L == logLines[k]
            slots == Percents(L.format)
        IN optsBase.Format \in Predefined =>
              /\ Len(slots) = Len(L.toks)
              /\ Len(L.args) = Len(L.toks)
              /\ \A i \in 1..Len(slots) :
                    SlotKind(L.format, slots[i]) = L.args[i].k
              /\ L.text = Layout(optsBase.Format, L)

C11_Witness ==
    /\ pc = "fmtdone"
    /\ optsBase.Format = Ltiny
    /\ Len(logLines) = 1
    /\ logLines[1].args[5] = FloatVal(2)
    /\ logLines[1].text =
          <<"G","E","T"," ","/","x"," ","2","0","0"," ","5"," ","-"," ",
            "0",".","0","0","2"," ","s">>

C11_WitnessDefault ==
    /\ pc = "fmtdone"
    /\ optsBase.Format = Ldefault
    /\ Len(logLines) = 1
    /\ logLines[1].args[6] = IntVal(404)
    /\ Len(logLines[1].text) > 40


----------------------------------------------------------------------------
(* Properties of the App *)

Busy(g) == gor[g].pc # "idle"
HoldsMc(g) == mc.w = g \/ g \in mc.readers
HoldsMt(g) == mt.w = g \/ g \in mt.readers

(* Goroutine g has looked its compiler up and not yet returned. *)
LookedUp(g) ==
    gor[g].pc \in {"c_parse", "c_compile", "t_lock", "t_wait", "t_store",
                   "t_unlock", "c_runlock"}

(* The keys of the compilers map that equal the extension of p when the   *)
(* case of letters is ignored.                                            *)
KeysFor(p) ==
    {e \in DOMAIN compilers :
        StringsToLower(e) = StringsToLower(PathExt(p))}

(* C12 as stated: a compileTemplate(p) about to return has done one of    *)
(* three things. With no compiler registered for the extension of p it    *)
(* returns nil, has not compiled and has stored nothing; with one it has  *)
(* called Compile once and either stored the result under the lowercased  *)
(* p and returns nil, or stored nothing and returns the error.            *)
C12_ThreeOutcomes ==
    \A g \in Procs :
        /\ At(g, "c_runlock") =>
              IF KeysFor(gor[g].p) = {}
              THEN gor[g].ret = "nil" /\ gor[g].nCompile = 0
                   /\ gor[g].nStore = 0
              ELSE /\ gor[g].nCompile = 1
                   /\ \/ gor[g].ret = "nil" /\ gor[g].nStore = 1
                      \/ gor[g].ret = "err" /\ gor[g].nStore = 0
        /\ At(g, "t_unlock") =>
              /\ StringsToLower(gor[g].p) \in DOMAIN templates
              /\ templates[StringsToLower(gor[g].p)] = gor[g].t

(* The same three outcomes told apart by what the lookup finds: the       *)
(* lowercased extension of p is a key of the compilers map, or is not.    *)
OutcomesByLookup ==
    \A g \in Procs :
        /\ At(g, "c_runlock") =>
              IF StringsToLower(PathExt(gor[g].p)) \notin DOMAIN compilers
              THEN gor[g].ret = "nil" /\ gor[g].nCompile = 0
                   /\ gor[g].nStore = 0
              ELSE /\ gor[g].nCompile = 1
                   /\ \/ gor[g].ret = "nil" /\ gor[g].nStore = 1
                      \/ gor[g].ret = "err" /\ gor[g].nStore = 0
        /\ At(g, "t_unlock") =>
              /\ StringsToLower(gor[g].p) \in DOMAIN templates
              /\ templates[StringsToLower(gor[g].p)] = gor[g].t

(* compileTemplate never changes the compilers map, and changes the       *)
(* templates map in one entry only.                                       *)
CompileFrame ==
    [][\A g \in Procs :
          (gor[g].pc \notin {"idle", "r_lock", "r_wait", "r_store",
                             "r_unlock"} /\ gor'[g] # gor[g]) =>
              /\ compilers' = compilers
              /\ \A k \in DOMAIN templates :
                    k # StringsToLower(gor[g].p) =>
                        k \in DOMAIN templates' /\ templates'[k] = templates[k]
              /\ DOMAIN templates' \subseteq
                    DOMAIN templates \cup {StringsToLower(gor[g].p)}]_vars

(* C13: a goroutine storing into the compilers map holds mc alone, with   *)
(* no goroutine reading or storing into that map at the same time; a      *)
(* goroutine reading it holds mc for reading, together with any number of *)
(* other readers; a goroutine storing into the templates map holds mt     *)
(* alone.                                                                 *)
C13_RegistriesExcluded ==
    \A g \in Procs :
        /\ At(g, "r_store") =>
              /\ mc.w = g /\ mc.held /\ mc.readers = {}
              /\ \A h \in Procs \ {g} :
                    gor[h].pc \notin {"r_store", "c_lookup"}
        /\ At(g, "c_lookup") =>
              /\ g \in mc.readers /\ ~mc.held
              /\ \A h \in Procs \ {g} : ~At(h, "r_store")
        /\ At(g, "t_store") =>
              /\ mt.w = g /\ mt.held /\ mt.readers = {}
              /\ \A h \in Procs \ {g} : ~At(h, "t_store")

C13_Witness ==
    \E g, h \in Procs :
        /\ g # h
        /\ At(g, "c_lookup") /\ At(h, "c_lookup")
        /\ mc.readers = {g, h}

C13_WitnessWriterWaits ==
    \E g, h \in Procs :
        /\ At(g, "r_wait") /\ At(h, "c_lookup")
        /\ mc.w = g /\ ~mc.held

(* C18: a goroutine acquires mc holding no lock and mt holding mc only,   *)
(* one that is between calls holds no lock, while a call is under way     *)
(* some call can take a step, and every call that was begun is completed. *)
C18_NoDeadlockAndCompletion ==
    /\ [](\A g \in Procs :
             /\ gor[g].pc \in {"r_lock", "c_rlock"} =>
                   ~HoldsMc(g) /\ ~HoldsMt(g)
             /\ gor[g].pc = "t_lock" => g \in mc.readers /\ ~HoldsMt(g)
             /\ HoldsMt(g) => g \in mc.readers /\ mc.w # g
             /\ ~Busy(g) => ~HoldsMc(g) /\ ~HoldsMt(g))
    /\ []((\E g \in Procs : Busy(g)) =>
             \E g \in Procs : ENABLED Proceed(g))
    /\ \A g \in Procs : Busy(g) ~> ~Busy(g)

(* A writer waits for a reader that goes on to take the second lock. *)
C18_Witness ==
    \E g, h \in Procs :
        /\ At(g, "r_wait") /\ At(h, "t_store")
        /\ h \in mc.readers /\ mt.w = h

(* C19 as stated: no two goroutines are inside Compile of the same        *)
(* compiler at the same time.                                             *)
C19_OneCompileAtATime ==
    \A g, h \in Procs :
        (g # h /\ At(g, "c_compile") /\ At(h, "c_compile")) =>
            gor[g].c # gor[h].c

(* C20 as stated: a compileTemplate(p) that has looked its compiler up    *)
(* uses the compiler registered under the key that equals the extension   *)
(* of p ignoring case.                                                    *)
C20_KeyCaseIgnored ==
    \A g \in Procs :
        LookedUp(g) =>
            \A e \in KeysFor(gor[g].p) :
                KeysFor(gor[g].p) = {e} => gor[g].c = compilers[e]

====
